---- MODULE Spec2Model ----
(***************************************************************************)
(* A model of the AI use-case generator pipeline: the workflow graph of    *)
(* streamlit_app.py and the four stages it sequences (research agent,      *)
(* use-case generator, resource collector, markdown report).               *)
(*                                                                         *)
(* Conventions.  A Python dict is a function whose DOMAIN is the set of    *)
(* keys present (the empty dict is the empty function), a Python list is a *)
(* sequence.  Floats in [0,1] are integers in tenths (0.5 is 5, 1.0 is     *)
(* 10).  A call that can raise is an operator returning a record with a    *)
(* field "raised".                                                         *)
(***************************************************************************)
EXTENDS Integers, Sequences, FiniteSets, TLC

VARIABLES
    wpc,          \* position of the current run_workflow call
    wstate,       \* the WorkflowState of the current run
    invocations,  \* the stage invocations of the current run, in order
    raisedAt,     \* where the current run raised ("none" while it has not)
    raisedError,  \* the exception the current run raised
    result,       \* what run_workflow handed to its caller
    checkpoint,   \* MemorySaver: thread_id -> state after the last completed step
    analysisStore,\* the "market_research" collection: id -> document
    storeLog,     \* the upserts the current run issued to a collection, in order
    lastAnalysis, \* per company, what its latest research_company call returned
    runs,         \* number of run_workflow calls started so far
    allOk,        \* every external call of the current run succeeded so far
    resumable,    \* the run started on a checkpoint with only analysis populated
    steps         \* graph steps taken by the current run

VARIABLES
    gpc,          \* position of the current generate_use_cases call
    ganalysis,    \* the CompanyAnalysis it was called with
    ganswer,      \* shape of the model's answer to the generation request
    gcases,       \* the UseCase objects built from the model's array
    gidx,         \* loop position of _score_use_cases
    greqs,        \* the use cases a scoring request was issued for, in order
    gresps,       \* the scoring responses received, in arrival order
    gresult,      \* the list generate_use_cases returned
    gstore,       \* the "use_cases" collection: id -> document
    gupsert       \* how the upsert of _store_use_cases ended

gvars == <<gpc, ganalysis, ganswer, gcases, gidx, greqs, gresps, gresult, gstore, gupsert>>

VARIABLES
    cpc,          \* position of the current collect_resources call
    cinput,       \* the use cases it was called with
    ctoken,       \* whether config["github_api"] is set
    cuc,          \* index of the use case being processed
    ctasks,       \* the three search tasks of that use case
    csession,     \* self.session: "none" or "open"
    copen,        \* ClientSession objects created and not closed
    call,         \* all_resources
    cresult,      \* the list collect_resources returned
    cprobes       \* what the last probe of each candidate resource ended in

cvars == <<cpc, cinput, ctoken, cuc, ctasks, csession, copen, call, cresult,
           cprobes>>

VARIABLES
    rinputs,      \* the arguments the caller of the report generator holds
    rlog,         \* the generate_report calls made: arguments, result, arguments after
    rfile         \* contents of resources.md

rvars == <<rinputs, rlog, rfile>>

VARIABLES
    qpc,          \* position of the current research_company call
    qcompany,     \* the company it was called with
    qsearch,      \* the three searches of its gather
    qasked,       \* the analysis request made to the model
    qresult       \* what research_company returned or raised

qvars == <<qpc, qcompany, qsearch, qasked, qresult>>

VARIABLES
    spc,          \* position of each of two collect_resources calls on one collector
    stasks,       \* the three search tasks of each call
    ssession,     \* self.session of the collector they share
    sleaked,      \* ClientSession objects dropped without being closed
    sresult       \* all_resources of each call

svars == <<spc, stasks, ssession, sleaked, sresult>>

wvars == <<wpc, wstate, invocations, raisedAt, raisedError, result, checkpoint,
           analysisStore, storeLog, lastAnalysis, runs, allOk, resumable, steps>>

-----------------------------------------------------------------------------
(* Bounds of the model                                                     *)

MaxRuns == 3

\* most run_workflow calls in a behaviour checked for termination
MaxLiveRuns == 2

\* longest array of use cases a model response carries
MaxBatch == 3

\* most generate_report calls in a behaviour
MaxCalls == 3

\* most hits one search returns
MaxHits == 1

\* most hits the search adapter returns to a search that runs alone
MaxResults == 6

Companies == {"acme", "globex"}

\* ai_readiness values a model response can carry, in tenths
ReadinessVals == {-5, 4, 15}

-----------------------------------------------------------------------------
(* Python values                                                           *)

EmptyDict == [k \in {} |-> 0]

DictGet(d, k, default) == IF k \in DOMAIN d THEN d[k] ELSE default

\* Python truthiness of a dict or of a list: non-empty
Truthy(v) == DOMAIN v # {}

\* a container whose Python type matters to its reader keeps it: the
\* resources of the initial workflow state are a dict, collect_resources
\* returns a list
PyDict(m) == [type |-> "dict", items |-> m]
PyList(s) == [type |-> "list", items |-> s]

\* a JSON scalar: a number (in tenths) or a non-numeric string
JNum(v) == [t |-> "num", v |-> v]
JStr == [t |-> "str", v |-> 0]

\* float(x): the number, or ValueError on a non-numeric string
Float(j) == [raised |-> j.t # "num", v |-> j.v]

-----------------------------------------------------------------------------
(* Language-model responses                                                *)

\* A response is a network failure, or a text: a payload that is valid JSON
\* (of some shape) or not, bare, inside a code fence followed by the word
\* json, or after an opening fence that is never closed.
Fences == {"none", "fence_json", "open_fence"}

LlmError == [kind |-> "error", fence |-> "none", json |-> "none", content |-> EmptyDict]

LlmText(fence, json, content) ==
    [kind |-> "text", fence |-> fence, json |-> json, content |-> content]

\* _clean_json_response: strip a code fence that both opens and closes the
\* text, then a leading "json"; an unbalanced fence is left in place
CleanJsonResponse(resp) ==
    IF resp.fence = "fence_json" THEN [resp EXCEPT !.fence = "none"]
    ELSE resp

\* json.loads: raises JSONDecodeError unless the text is bare valid JSON
JsonLoads(text) ==
    [raised |-> text.fence # "none" \/ text.json = "invalid",
     value |-> text.content, json |-> text.json]

-----------------------------------------------------------------------------
(* Research stage (agents/research_agent.py)                               *)

RequiredFields == {"industry", "business_model", "key_products",
                   "market_position", "competitors", "ai_readiness", "trends"}

\* an abstract value for each field of the model's JSON object
FieldValue(k, r) ==
    CASE k = "ai_readiness" -> r
      [] k = "key_products" -> <<"product">>
      [] k = "competitors" -> <<"rival">>
      [] OTHER -> k

\* the JSON objects the model can return: all required keys, or some or all
\* of them missing; ai_readiness any number, or a non-numeric string
KeySets == {RequiredFields, RequiredFields \ {"ai_readiness"},
            RequiredFields \ {"industry", "trends"}, {}}

AnalysisContents ==
    { [k \in ks |-> FieldValue(k, r)] :
        ks \in KeySets, r \in {JNum(v) : v \in ReadinessVals} \cup {JStr} }

AnalysisResponses ==
    {LlmError}
    \cup {LlmText(f, "invalid", EmptyDict) : f \in Fences}
    \cup {LlmText(f, "object", c) : f \in Fences, c \in AnalysisContents}

Queries == {"company_info", "industry_trends", "competitors"}

\* CompanyAnalysis(...) built by _parse_analysis_response
ParseAnalysisResponse(response, company, now) ==
    LET loaded == JsonLoads(CleanJsonResponse(response))
        content == loaded.value
        missing == RequiredFields \ DOMAIN content
        ai == IF "ai_readiness" \in DOMAIN content
              THEN Float(content["ai_readiness"]) ELSE [raised |-> TRUE, v |-> 0]
    IN  IF loaded.raised THEN [raised |-> TRUE, error |-> "JSONDecodeError",
                               missing |-> {}, analysis |-> EmptyDict]
        ELSE IF missing # {} THEN [raised |-> TRUE, error |-> "ValueError",
                                   missing |-> missing, analysis |-> EmptyDict]
        ELSE IF ai.raised THEN [raised |-> TRUE, error |-> "ValueError",
                                missing |-> {}, analysis |-> EmptyDict]
        ELSE [raised |-> FALSE, error |-> "none", missing |-> {},
              analysis |-> [company_name |-> company,
                            industry |-> content["industry"],
                            business_model |-> content["business_model"],
                            key_products |-> content["key_products"],
                            market_position |-> content["market_position"],
                            competitors |-> content["competitors"],
                            ai_readiness |-> ai.v,
                            trends |-> content["trends"],
                            timestamp |-> now]]

\* CompanyAnalysis.to_dict
ToDict(a) ==
    [company_name |-> a.company_name, industry |-> a.industry,
     business_model |-> a.business_model, key_products |-> a.key_products,
     market_position |-> a.market_position, competitors |-> a.competitors,
     ai_readiness |-> a.ai_readiness, trends |-> a.trends,
     timestamp |-> <<"str", a.timestamp>>,
     analysis |-> <<a.industry, a.business_model, a.key_products,
                    a.market_position, a.competitors, a.ai_readiness>>]

\* an analysis whose error names only one of the missing fields
AnalyzeFindingsFirstMissing(company, searches, response, now) ==
    LET parsed == IF response.kind = "error"
                  THEN [raised |-> TRUE, error |-> "ConnectionError", missing |-> {},
                        analysis |-> EmptyDict]
                  ELSE ParseAnalysisResponse(response, company, now)
    IN  IF parsed.missing = {} THEN parsed
        ELSE [parsed EXCEPT !.missing = {CHOOSE k \in parsed.missing : TRUE}]

\* _analyze_findings: the model is asked once, with the items of the queries
\* that succeeded; a failed call or an unparsable answer raises
AnalyzeFindings(company, searches, response, now) ==
    IF response.kind = "error"
    THEN [raised |-> TRUE, error |-> "ConnectionError", missing |-> {},
          analysis |-> EmptyDict]
    ELSE ParseAnalysisResponse(response, company, now)

\* how an upsert ended: it returned, or it raised and the except branch
\* logged the error (research_agent.py 165-166, use_case_generator.py 407-408)
UpsertEnd(storeOk) ==
    IF storeOk THEN "ok" ELSE "raised"

\* a store that takes the document although the upsert raised
StoreAnalysisAlways(store, company, analysis, storeOk) ==
    [c \in DOMAIN store \cup {company} |->
        IF c = company THEN ToDict(analysis) ELSE store[c]]

\* _store_analysis: upsert by company name; a store failure is logged only
StoreAnalysis(store, company, analysis, storeOk) ==
    IF storeOk
    THEN [c \in DOMAIN store \cup {company} |->
            IF c = company THEN ToDict(analysis) ELSE store[c]]
    ELSE store

\* research_company: three searches (each suppresses its own failure), one
\* analysis request, one upsert; returns analysis.to_dict()
ResearchCompany(company, okQueries, response, now) ==
    LET found == AnalyzeFindings(company, okQueries, response, now)
    IN  [raised |-> found.raised, error |-> found.error,
         missing |-> found.missing,
         analysis |-> found.analysis,
         value |-> IF found.raised THEN EmptyDict ELSE ToDict(found.analysis)]

\* min_score of _filter_results, line 95, in tenths
MinScore == 6

\* what one request to the search tool ends in: an exception, or hits with
\* the relevance score each reports (0 stands for a hit that reports none)
QueryOutcomes ==
    {[raised |-> TRUE, scores |-> <<>>], [raised |-> FALSE, scores |-> <<>>],
     [raised |-> FALSE, scores |-> <<9>>], [raised |-> FALSE, scores |-> <<5, 9, 0>>]}

\* the hits of a query as items: the query, the position, the score
QueryHits(query, scores) ==
    [i \in 1..Len(scores) |-> [query |-> query, pos |-> i, relevance_score |-> scores[i]]]

\* _filter_results, lines 95-97
FilterResults(results) ==
    LET Relevant(r) == r.relevance_score >= MinScore
    IN  SelectSeq(results, Relevant)

\* a search that lets the failure of its request out
SearchQueryRaising(query, outcome) ==
    IF outcome.raised THEN [raised |-> TRUE, items |-> <<>>, logged |-> TRUE]
    ELSE [raised |-> FALSE, items |-> FilterResults(QueryHits(query, outcome.scores)),
          logged |-> FALSE]

\* _search_company_info, _search_industry_trends, _search_competitors,
\* lines 65-93: the filtered hits, or [] and an error in the log
SearchQuery(query, outcome) ==
    IF outcome.raised THEN [raised |-> FALSE, items |-> <<>>, logged |-> TRUE]
    ELSE [raised |-> FALSE, items |-> FilterResults(QueryHits(query, outcome.scores)),
          logged |-> FALSE]

\* the order of the coroutines in the gather of lines 172-176
QueryOrder == <<"company_info", "industry_trends", "competitors">>

PendingSearch == [pc |-> "pending", outcome |-> [raised |-> FALSE, scores |-> <<>>],
                  items |-> <<>>, logged |-> FALSE]

QIdle ==
    /\ qpc = "idle"
    /\ qcompany = ""
    /\ qsearch = [q \in Queries |-> PendingSearch]
    /\ qasked = [asked |-> FALSE, search_results |-> <<>>, response |-> LlmError,
                 upsert |-> "none"]
    /\ qresult = [kind |-> "none", value |-> EmptyDict, error |-> "none",
                  missing |-> {}]

QInit ==
    /\ qpc = "gather"
    /\ qcompany \in Companies
    /\ qsearch = [q \in Queries |-> PendingSearch]
    /\ qasked = [asked |-> FALSE, search_results |-> <<>>, response |-> LlmError,
                 upsert |-> "none"]
    /\ qresult = [kind |-> "none", value |-> EmptyDict, error |-> "none",
                  missing |-> {}]

\* one of the three searches of the gather gets the answer to its request
\* and returns; were it to raise, the gather and research_company would
\* raise (lines 186-191)
QuerySearch(query, outcome) ==
    /\ qpc = "gather"
    /\ qsearch[query].pc = "pending"
    /\ LET r == SearchQuery(query, outcome)
       IN  /\ qsearch' = [qsearch EXCEPT ![query] =
                 [pc |-> "done", outcome |-> outcome, items |-> r.items,
                  logged |-> r.logged]]
           /\ qpc' = IF r.raised THEN "raised" ELSE qpc
           /\ qresult' = IF r.raised
                         THEN [kind |-> "raise", value |-> EmptyDict,
                               error |-> "Exception", missing |-> {}]
                         ELSE qresult
    /\ UNCHANGED <<qcompany, qasked, analysisStore, lastAnalysis>>

\* the gather is complete: lines 179-184 flatten the three lists in the
\* order of the gather, ask the model, parse its answer, store the
\* analysis and return it as a dict
QueryAnalyze(response, storeOk) ==
    /\ qpc = "gather"
    /\ \A q \in Queries : qsearch[q].pc = "done"
    /\ LET all_searches == qsearch[QueryOrder[1]].items \o qsearch[QueryOrder[2]].items
                              \o qsearch[QueryOrder[3]].items
           found == AnalyzeFindings(qcompany, all_searches, response, 0)
       IN  /\ qasked' = [asked |-> TRUE, search_results |-> all_searches,
                          response |-> response,
                          upsert |-> IF found.raised THEN "none"
                                     ELSE UpsertEnd(storeOk)]
           /\ qpc' = IF found.raised THEN "raised" ELSE "done"
           /\ qresult' = IF found.raised
                         THEN [kind |-> "raise", value |-> EmptyDict,
                               error |-> found.error, missing |-> found.missing]
                         ELSE [kind |-> "value", value |-> ToDict(found.analysis),
                               error |-> "none", missing |-> {}]
           /\ analysisStore' = IF found.raised THEN analysisStore
                               ELSE StoreAnalysis(analysisStore, qcompany,
                                                  found.analysis, storeOk)
           /\ lastAnalysis' =
                 IF found.raised THEN lastAnalysis
                 ELSE [c \in DOMAIN lastAnalysis \cup {qcompany} |->
                         IF c = qcompany THEN ToDict(found.analysis)
                         ELSE lastAnalysis[c]]
    /\ UNCHANGED <<qcompany, qsearch>>

-----------------------------------------------------------------------------
(* Use-case generation stage (agents/use_case_generator.py)                *)

Titles == {"t1", "t2"}

\* the keys _generate_initial_use_cases subscripts, and those it reads
\* with .get and a default
SubscriptedKeys == {"title", "description", "impact", "complexity", "timeline"}
DefaultedKeys == {"data_sources", "challenges"}

\* the elements a model's array can carry: every key present, one defaulted
\* key absent, the title absent, or a complexity that is not a number
CaseElement(title, keys, complexity) ==
    [k \in keys |->
        CASE k = "title" -> title
          [] k = "complexity" -> complexity
          [] k \in DefaultedKeys -> <<k>>
          [] OTHER -> k]

CaseElements ==
    {CaseElement(t, SubscriptedKeys \cup DefaultedKeys, JNum(3)) : t \in Titles}
    \cup {CaseElement("t1", SubscriptedKeys \cup {"challenges"}, JNum(3)),
          CaseElement("t1", (SubscriptedKeys \cup DefaultedKeys) \ {"title"}, JNum(3)),
          CaseElement("t2", SubscriptedKeys \cup DefaultedKeys, JStr)}

CaseArrays == UNION {[1..n -> CaseElements] : n \in 0..MaxBatch}

UseCaseResponses ==
    {LlmError}
    \cup {LlmText(f, "invalid", <<>>) : f \in Fences}
    \cup {LlmText("none", "object", <<>>)}
    \cup {LlmText(f, "array", a) : f \in {"none", "fence_json"}, a \in CaseArrays}

\* UseCase(...) of lines 303-311; id is the position in the array and
\* stands for the identity of the Python object
BuildUseCase(case, id) ==
    [id |-> id, title |-> case["title"], description |-> case["description"],
     impact |-> case["impact"], complexity |-> case["complexity"].v,
     timeline |-> case["timeline"], priority_score |-> 0,
     data_sources |-> DictGet(case, "data_sources", <<>>),
     challenges |-> DictGet(case, "challenges", <<>>)]

CaseBuildable(case) ==
    /\ SubscriptedKeys \subseteq DOMAIN case
    /\ ~Float(case["complexity"]).raised

\* a generator that keeps the first two elements of the array only
GenerateInitialUseCasesCapped(response) ==
    LET loaded == JsonLoads(CleanJsonResponse(response))
        data == loaded.value
        n == IF Len(data) < 2 THEN Len(data) ELSE 2
    IN  IF response.kind = "error" \/ loaded.raised \/ loaded.json # "array"
        THEN [raised |-> TRUE, use_cases |-> <<>>]
        ELSE IF \E i \in 1..Len(data) : ~CaseBuildable(data[i])
        THEN [raised |-> TRUE, use_cases |-> <<>>]
        ELSE [raised |-> FALSE,
              use_cases |-> [i \in 1..n |-> BuildUseCase(data[i], i)]]

\* _generate_initial_use_cases, lines 283-321
GenerateInitialUseCases(response) ==
    LET loaded == JsonLoads(CleanJsonResponse(response))
        data == loaded.value
    IN  IF response.kind = "error" \/ loaded.raised \/ loaded.json # "array"
        THEN [raised |-> TRUE, use_cases |-> <<>>]
        ELSE IF \E i \in 1..Len(data) : ~CaseBuildable(data[i])
        THEN [raised |-> TRUE, use_cases |-> <<>>]
        ELSE [raised |-> FALSE,
              use_cases |-> [i \in 1..Len(data) |-> BuildUseCase(data[i], i)]]

\* the answers to a scoring request: a failed call, a text that is no
\* number, or a number (in tenths)
ScoreNums == {-5, 8, 15}

ScoreResponses ==
    {[kind |-> "error", value |-> JStr], [kind |-> "text", value |-> JStr]}
    \cup {[kind |-> "text", value |-> JNum(v)] : v \in ScoreNums}

Min(a, b) == IF a < b THEN a ELSE b
Max(a, b) == IF a > b THEN a ELSE b

\* a scorer that answers 0 when the response is no number
CalculatePriorityScoreZero(response) ==
    IF response.kind = "error" \/ Float(response.value).raised THEN 0
    ELSE Max(0, Min(10, Float(response.value).v))

\* _calculate_priority_score, lines 323-360: the clamped number, 0.5 when
\* the response is no number or the call failed
CalculatePriorityScore(response) ==
    IF response.kind = "error" THEN 5
    ELSE IF Float(response.value).raised THEN 5
    ELSE Max(0, Min(10, Float(response.value).v))

\* where sorted() puts x into a list already in order: after every element
\* whose key is not smaller (equal keys keep their order)
InsertPos(sorted, x) ==
    IF \E i \in 1..Len(sorted) : sorted[i].priority_score < x.priority_score
    THEN CHOOSE i \in 1..Len(sorted) :
            /\ sorted[i].priority_score < x.priority_score
            /\ \A j \in 1..(i - 1) : sorted[j].priority_score >= x.priority_score
    ELSE Len(sorted) + 1

InsertDesc(sorted, x) ==
    SubSeq(sorted, 1, InsertPos(sorted, x) - 1) \o <<x>>
        \o SubSeq(sorted, InsertPos(sorted, x), Len(sorted))

\* a sort that forgets reverse=True: x goes after every element whose key
\* is not larger
InsertAsc(sorted, x) ==
    IF \E i \in 1..Len(sorted) : sorted[i].priority_score > x.priority_score
    THEN LET p == CHOOSE i \in 1..Len(sorted) :
                    /\ sorted[i].priority_score > x.priority_score
                    /\ \A j \in 1..(i - 1) : sorted[j].priority_score <= x.priority_score
         IN  SubSeq(sorted, 1, p - 1) \o <<x>> \o SubSeq(sorted, p, Len(sorted))
    ELSE Append(sorted, x)

RECURSIVE SortedAscending(_)
SortedAscending(use_cases) ==
    IF use_cases = <<>> THEN <<>>
    ELSE InsertAsc(SortedAscending(SubSeq(use_cases, 1, Len(use_cases) - 1)),
                   use_cases[Len(use_cases)])

\* sorted(use_cases, key=lambda x: x.priority_score, reverse=True), line 368
RECURSIVE SortedByPriority(_)
SortedByPriority(use_cases) ==
    IF use_cases = <<>> THEN <<>>
    ELSE InsertDesc(SortedByPriority(SubSeq(use_cases, 1, Len(use_cases) - 1)),
                    use_cases[Len(use_cases)])

\* the document _store_use_cases writes for a use case, lines 383-392
UseCaseDoc(u) ==
    [title |-> u.title, description |-> u.description, impact |-> u.impact,
     complexity |-> u.complexity, timeline |-> u.timeline,
     data_sources |-> u.data_sources, challenges |-> u.challenges,
     priority_score |-> u.priority_score]

\* _store_use_cases, lines 374-408: one upsert of all documents, ids
\* {company}_usecase_{i} with i counted from 0; a failure is logged only
StoreUseCases(store, company, use_cases, storeOk) ==
    IF storeOk
    THEN LET ids == {<<company, i - 1>> : i \in 1..Len(use_cases)}
         IN  [d \in DOMAIN store \cup ids |->
                IF d \in ids THEN UseCaseDoc(use_cases[d[2] + 1]) ELSE store[d]]
    ELSE store

\* the CompanyAnalysis objects generate_use_cases is called with
AnalysisObjects ==
    {ParseAnalysisResponse(
        LlmText("none", "object", [k \in RequiredFields |-> FieldValue(k, JNum(4))]),
        c, 0).analysis : c \in Companies}

GIdle ==
    /\ gpc = "idle"
    /\ ganalysis = EmptyDict
    /\ ganswer = [top |-> "none", keys |-> <<>>]
    /\ gcases = <<>>
    /\ gidx = 0
    /\ greqs = <<>>
    /\ gresps = <<>>
    /\ gresult = <<>>
    /\ gstore = EmptyDict
    /\ gupsert = "none"

GInit ==
    /\ gpc = "generate"
    /\ ganalysis \in AnalysisObjects
    /\ ganswer = [top |-> "none", keys |-> <<>>]
    /\ gcases = <<>>
    /\ gidx = 0
    /\ greqs = <<>>
    /\ gresps = <<>>
    /\ gresult = <<>>
    /\ gstore = EmptyDict
    /\ gupsert = "none"

\* what the model answered to the generation request: a failed call, text
\* that is no JSON, a JSON object, or a JSON array and the keys of each of
\* its elements
AnswerShape(response) ==
    IF response.kind = "error" THEN [top |-> "error", keys |-> <<>>]
    ELSE IF response.json # "array" THEN [top |-> response.json, keys |-> <<>>]
    ELSE [top |-> "array",
          keys |-> [i \in 1..Len(response.content) |-> DOMAIN response.content[i]]]

\* generate_use_cases up to the scoring loop: line 413
GenerateInitial(response) ==
    /\ gpc = "generate"
    /\ LET g == GenerateInitialUseCases(response)
       IN  /\ gpc' = IF g.raised THEN "raised" ELSE "score"
           /\ gcases' = g.use_cases
    /\ ganswer' = AnswerShape(response)
    /\ gidx' = 1
    /\ UNCHANGED <<ganalysis, greqs, gresps, gresult, gstore, gupsert>>

\* a loop that gives every score to the first use case
ScoreTargetFirst(idx) == 1

\* the use case the awaited score is assigned to: the loop's own use_case,
\* line 366
ScoreTarget(idx) == idx

\* the head of a turn of the loop of _score_use_cases, lines 365-366:
\* _calculate_priority_score is called for the next use case and sends its
\* request; the loop is suspended in the await of line 366
ScoreIssue ==
    /\ gpc = "score"
    /\ gidx <= Len(gcases)
    /\ greqs' = Append(greqs, gcases[gidx].id)
    /\ gpc' = "await"
    /\ UNCHANGED <<ganalysis, ganswer, gcases, gidx, gresps, gresult, gstore, gupsert>>

\* the awaited response arrives: the score is assigned to the use case of
\* this turn and the loop moves on
ScoreArrive(response) ==
    /\ gpc = "await"
    /\ gcases' = [gcases EXCEPT ![ScoreTarget(gidx)].priority_score =
                                    CalculatePriorityScore(response)]
    /\ gresps' = Append(gresps, [id |-> greqs[Len(greqs)], response |-> response])
    /\ gidx' = gidx + 1
    /\ gpc' = "score"
    /\ UNCHANGED <<ganalysis, ganswer, greqs, gresult, gstore, gupsert>>

\* after the loop: line 368 sorts, line 415 stores, line 416 returns
RankAndStore(storeOk) ==
    /\ gpc = "score"
    /\ gidx > Len(gcases)
    /\ gresult' = SortedByPriority(gcases)
    /\ gstore' = StoreUseCases(gstore, ganalysis.company_name, gresult', storeOk)
    /\ gupsert' = UpsertEnd(storeOk)
    /\ gpc' = "done"
    /\ UNCHANGED <<ganalysis, ganswer, gcases, gidx, greqs, gresps>>

-----------------------------------------------------------------------------
(* Resource collection stage (agents/resource_collector.py)                *)

\* self.max_retries, line 19
MaxRetries == 3

SearchKinds == {"datasets", "documentation"}
TaskKinds == SearchKinds \cup {"github"}

\* the lists of UseCase objects collect_resources is called with
UseCaseLists == {<<>>, <<"t1">>, <<"t1", "t2">>}

\* ResourceType of the Resource each search builds
ResourceTypeOf(kind) ==
    CASE kind = "datasets" -> "dataset"
      [] kind = "documentation" -> "documentation"
      [] kind = "github" -> "github_repo"

\* Resource(...) of lines 127-134, 155-162, 199-206: hit i of the search of
\* that kind for use case number uc; the url identifies the hit
BuildResource(kind, uc, i, title) ==
    [type |-> ResourceTypeOf(kind), url |-> <<uc, kind, i>>,
     relevance_score |-> IF kind = "github" THEN 8 ELSE 0,
     use_case_id |-> title]

\* what one HEAD request ends in: a response with a status, or an exception
\* (timeout, connection error)
ProbeOutcomes ==
    {[raised |-> FALSE, status |-> 200], [raised |-> FALSE, status |-> 404],
     [raised |-> TRUE, status |-> 0]}

\* a probe that takes any response for a live URL
ValidateAttemptAnyStatus(outcome, attempt) ==
    IF outcome.raised
    THEN IF attempt = MaxRetries THEN "reject" ELSE "retry"
    ELSE "accept"

\* a probe that tries again after a response that is not 200
ValidateAttemptRetryRefused(outcome, attempt) ==
    IF outcome.raised \/ outcome.status # 200
    THEN IF attempt = MaxRetries THEN "reject" ELSE "retry"
    ELSE "accept"

\* one turn of the loop of _validate_resource, lines 100-115; attempt is
\* counted from 1
ValidateAttempt(outcome, attempt) ==
    IF outcome.raised
    THEN IF attempt = MaxRetries THEN "reject" ELSE "retry"
    ELSE IF outcome.status = 200 THEN "accept" ELSE "reject"

\* self.retry_delay, line 20
RetryDelay == 1

\* a retry loop that waits the base delay after every failed attempt
BackoffDelayFlat(attempt) == RetryDelay

\* the wait after failed attempt number attempt (counted from 1) of a retry
\* loop, lines 95 and 115: asyncio.sleep(self.retry_delay * (attempt + 1))
\* with attempt counted from 0
BackoffDelay(attempt) == RetryDelay * attempt

\* data.get("items", [])[:5], line 197
GithubCap == 5

\* what one search request ends in: an exception, or a list of hits
SearchOutcomesUpTo(n) ==
    {[raised |-> TRUE, hits |-> 0]} \cup {[raised |-> FALSE, hits |-> k] : k \in 0..n}

SearchOutcomes == SearchOutcomesUpTo(MaxHits)

\* a task of the gather of line 64: its position, the locals of the loop it
\* is in (attempt counted from 1, the waits made so far, the hits and the
\* one being probed), the list it builds, and whether it logged an error
\* or issued a request to the repository search API
NewTask(kind) ==
    [pc |-> IF kind = "github" THEN "request" ELSE "search",
     attempt |-> 1, slept |-> <<>>, hits |-> 0, hit |-> 1, validated |-> <<>>,
     logged |-> FALSE, requested |-> FALSE, last |-> "none"]

\* a task that returned that list; its locals are gone
DoneTask(validated, logged, requested) ==
    [pc |-> "done", attempt |-> 1, slept |-> <<>>, hits |-> 0, hit |-> 1,
     validated |-> validated, logged |-> logged, requested |-> requested,
     last |-> "none"]

\* a search task whose _search_with_retry gave it nothing to probe: it
\* returns the empty list; the waits its retry loop made stay on record
SearchEnded(slept, logged) ==
    [DoneTask(<<>>, logged, FALSE) EXCEPT !.slept = slept]

NewTasks == [kind \in TaskKinds |-> NewTask(kind)]

\* a session that opens a new connection pool on every call
InitSessionAlways(session, open) == [session |-> "open", open |-> open + 1]

\* _init_session, lines 25-32: a ClientSession is created only when the
\* collector holds none; open counts the sessions created and not closed
InitSession(session, open) ==
    IF session = "none" THEN [session |-> "open", open |-> open + 1]
    ELSE [session |-> session, open |-> open]

\* _cleanup_session, lines 34-42
CleanupSession(session, open) ==
    IF session = "open" THEN [session |-> "none", open |-> open - 1]
    ELSE [session |-> session, open |-> open]

CIdle ==
    /\ cpc = "idle"
    /\ cinput = <<>>
    /\ ctoken = FALSE
    /\ cuc = 0
    /\ ctasks = NewTasks
    /\ csession = "none"
    /\ copen = 0
    /\ call = <<>>
    /\ cresult = PyList(<<>>)
    /\ cprobes = EmptyDict

CInit ==
    /\ cpc = "call"
    /\ cinput \in UseCaseLists
    /\ ctoken \in BOOLEAN
    /\ cuc = 0
    /\ ctasks = NewTasks
    /\ csession = "none"
    /\ copen = 0
    /\ call = <<>>
    /\ cresult = PyList(<<>>)
    /\ cprobes = EmptyDict

\* collect_resources up to the first gather, lines 46-64; when the session
\* cannot be created lines 78-82 log, clean up and re-raise
CollectStart(sessionOk) ==
    /\ cpc = "call"
    /\ IF ~Truthy(cinput)
       THEN /\ cpc' = "done"
            /\ UNCHANGED <<cuc, csession, copen>>
       ELSE IF ~sessionOk
       THEN LET closed == CleanupSession(csession, copen)
            IN  /\ cpc' = "raised"
                /\ csession' = closed.session
                /\ copen' = closed.open
                /\ UNCHANGED cuc
       ELSE LET opened == InitSession(csession, copen)
            IN  /\ cpc' = "gather"
                /\ cuc' = 1
                /\ csession' = opened.session
                /\ copen' = opened.open
    /\ cresult' = PyList(<<>>)
    /\ ctasks' = NewTasks
    /\ UNCHANGED <<cinput, ctoken, call, cprobes>>

\* one attempt of _search_with_retry, lines 88-95, made for the dataset or
\* the documentation search: a failed attempt is followed by a wait and
\* the next attempt, the last one by an error in the log and no hit
SearchAttempt(kind, outcome) ==
    /\ cpc = "gather"
    /\ ctasks[kind].pc = "search"
    /\ LET t == ctasks[kind]
       IN  ctasks' = [ctasks EXCEPT ![kind] =
              IF outcome.raised
              THEN IF t.attempt = MaxRetries THEN SearchEnded(t.slept, TRUE)
                   ELSE [t EXCEPT !.attempt = t.attempt + 1,
                                  !.slept = Append(t.slept, BackoffDelay(t.attempt))]
              ELSE IF outcome.hits = 0 THEN SearchEnded(t.slept, FALSE)
              ELSE [t EXCEPT !.pc = "probe", !.hits = outcome.hits,
                             !.hit = 1, !.attempt = 1, !.slept = <<>>]]
    /\ UNCHANGED <<cpc, cinput, ctoken, cuc, csession, copen, call, cresult, cprobes>>

\* what the attempt before the running one of a probe ended in
AttemptEnd(outcome) ==
    IF outcome.raised THEN "raised" ELSE "response"

\* what the last HEAD request made for a resource ended in
ProbeEnd(outcome) ==
    IF outcome.raised THEN "exhausted"
    ELSE IF outcome.status = 200 THEN "ok" ELSE "refused"

\* one attempt of _validate_resource for the current hit of a search, and
\* lines 135-136 when it ends the probing
ProbeAttempt(kind, outcome) ==
    /\ cpc = "gather"
    /\ ctasks[kind].pc = "probe"
    /\ LET t == ctasks[kind]
           r == BuildResource(kind, cuc, t.hit, cinput[cuc])
           verdict == ValidateAttempt(outcome, t.attempt)
           kept == IF verdict = "accept" THEN Append(t.validated, r) ELSE t.validated
           opened == InitSession(csession, copen)
       IN  /\ ctasks' = [ctasks EXCEPT ![kind] =
                 IF verdict = "retry"
                 THEN [t EXCEPT !.attempt = t.attempt + 1,
                                !.slept = Append(t.slept, BackoffDelay(t.attempt)),
                                !.last = AttemptEnd(outcome)]
                 ELSE IF t.hit = t.hits THEN DoneTask(kept, FALSE, FALSE)
                 ELSE [t EXCEPT !.hit = t.hit + 1, !.attempt = 1, !.slept = <<>>,
                                !.validated = kept, !.last = "none"]]
           /\ cprobes' = IF verdict = "retry" THEN cprobes
                         ELSE [k \in DOMAIN cprobes \cup {r.url} |->
                                 IF k = r.url THEN ProbeEnd(outcome)
                                 ELSE cprobes[k]]
           /\ csession' = opened.session
           /\ copen' = opened.open
    /\ UNCHANGED <<cpc, cinput, ctoken, cuc, call, cresult>>

\* what the request to the repository search API ends in: an exception, a
\* refusal, or a page of items
GithubOutcomesUpTo(n) ==
    {[raised |-> TRUE, status |-> 0, hits |-> 0], [raised |-> FALSE, status |-> 403, hits |-> 0]}
    \cup {[raised |-> FALSE, status |-> 200, hits |-> k] : k \in 0..n}

GithubOutcomes == GithubOutcomesUpTo(1)

\* a repository search that asks the API whatever the configuration
GithubSkipsNever(token) == FALSE

\* line 176: without a token the repository search returns at once
GithubSkips(token) == ~token

\* _search_github, lines 174-218
GithubSearch(outcome) ==
    /\ cpc = "gather"
    /\ ctasks["github"].pc = "request"
    /\ LET opened == IF GithubSkips(ctoken) THEN [session |-> csession, open |-> copen]
                     ELSE InitSession(csession, copen)
       IN  /\ ctasks' = [ctasks EXCEPT !["github"] =
                 IF GithubSkips(ctoken) THEN DoneTask(<<>>, FALSE, FALSE)
                 ELSE IF outcome.raised \/ outcome.status # 200
                 THEN DoneTask(<<>>, TRUE, TRUE)
                 ELSE DoneTask([i \in 1..Min(outcome.hits, GithubCap) |->
                                  BuildResource("github", cuc, i, cinput[cuc])],
                               FALSE, TRUE)]
           /\ csession' = opened.session
           /\ copen' = opened.open
    /\ UNCHANGED <<cpc, cinput, ctoken, cuc, call, cresult, cprobes>>

\* a gather that gives up the whole use case when one of its searches
\* logged an error
GatheredAllOrNothing(tasks) ==
    IF \E kind \in TaskKinds : tasks[kind].logged THEN <<>>
    ELSE tasks["datasets"].validated \o tasks["documentation"].validated
            \o tasks["github"].validated

\* lines 67-72: the lists of the three tasks, in task order
Gathered(tasks) ==
    tasks["datasets"].validated \o tasks["documentation"].validated
        \o tasks["github"].validated

\* the gather of line 64 is complete: lines 67-72 extend all_resources;
\* after the last use case lines 81-84 close the session and return
GatherDone ==
    /\ cpc = "gather"
    /\ \A kind \in TaskKinds : ctasks[kind].pc = "done"
    /\ call' = call \o Gathered(ctasks)
    /\ ctasks' = NewTasks
    /\ IF cuc = Len(cinput)
       THEN LET closed == CleanupSession(csession, copen)
            IN  /\ cpc' = "done"
                /\ cresult' = PyList(call')
                /\ csession' = closed.session
                /\ copen' = closed.open
                /\ UNCHANGED cuc
       ELSE /\ cuc' = cuc + 1
            /\ UNCHANGED <<cpc, cresult, csession, copen>>
    /\ UNCHANGED <<cinput, ctoken, cprobes>>

-----------------------------------------------------------------------------
(* Two collect_resources calls on one collector                            *)

\* The WorkflowManager holds one EnhancedResourceCollector (streamlit_app.py
\* line 29), so the Resource Collection stages of two runs that overlap are
\* two collect_resources coroutines on the same object and the same
\* self.session.  Each call has one use case; the search tool answers every
\* query with one hit, every URL answers 200 and the repository search
\* answers 200 with one repository, so a request fails only when the session
\* it was issued on is closed while it is in flight.
Calls == {"a", "b"}

SharedTitle(c) == IF c = "a" THEN "t1" ELSE "t2"

\* a task of the gather: its position, the attempt of its probe, the
\* session its request in flight was issued on ("cur": the one self.session
\* refers to, "cut": one closed since, "dropped": one self.session was
\* taken off without closing it) and whether it found its resource
SharedTask(pc, attempt, on, got) ==
    [pc |-> pc, attempt |-> attempt, on |-> on, got |-> got]

SharedNewTasks ==
    [kind \in TaskKinds |->
        IF kind = "github" THEN SharedTask("new", 0, "none", FALSE)
        ELSE SharedTask("search", 0, "none", FALSE)]

SIdle ==
    /\ spc = [c \in Calls |-> "idle"]
    /\ stasks = [c \in Calls |-> [kind \in TaskKinds |->
                                      SharedTask("idle", 0, "none", FALSE)]]
    /\ ssession = "none"
    /\ sleaked = 0
    /\ sresult = [c \in Calls |-> <<>>]

\* what every request does before it uses self.session (lines 28-29,
\* 102-103, 186-187): a session that is None or closed is replaced by a new
\* one, an open one is used
SessionForRequest(session) == "open"

\* collect_resources(use_cases) is called with one use case: lines 46-64 up
\* to the gather
SharedStart(c) ==
    /\ spc[c] = "idle"
    /\ spc' = [spc EXCEPT ![c] = "gather"]
    /\ ssession' = SessionForRequest(ssession)
    /\ stasks' = [stasks EXCEPT ![c] = SharedNewTasks]
    /\ UNCHANGED <<sleaked, sresult>>

\* the search of a dataset or documentation task returns its hit; the
\* Resource is built and _validate_resource issues its first HEAD request
SharedSearchReturns(c, kind) ==
    /\ spc[c] = "gather"
    /\ stasks[c][kind].pc = "search"
    /\ ssession' = SessionForRequest(ssession)
    /\ stasks' = [stasks EXCEPT ![c][kind] = SharedTask("head", 1, "cur", FALSE)]
    /\ UNCHANGED <<spc, sleaked, sresult>>

\* the HEAD request of a probe ends (lines 105-115).  On a session still
\* open the answer is 200.  On a session closed under it the request has
\* either been answered already or raises; a raise at the last attempt
\* gives False, an earlier one sleeps and issues the request again
SharedHeadEnds(c, kind, ok) ==
    /\ spc[c] = "gather"
    /\ stasks[c][kind].pc = "head"
    /\ stasks[c][kind].on # "cut" => ok
    /\ IF ok
       THEN /\ stasks' = [stasks EXCEPT ![c][kind] = SharedTask("done", 0, "none", TRUE)]
            /\ UNCHANGED ssession
       ELSE IF stasks[c][kind].attempt = MaxRetries
       THEN /\ stasks' = [stasks EXCEPT ![c][kind] = SharedTask("done", 0, "none", FALSE)]
            /\ UNCHANGED ssession
       ELSE /\ stasks' = [stasks EXCEPT ![c][kind] =
                             SharedTask("head", stasks[c][kind].attempt + 1, "cur", FALSE)]
            /\ ssession' = SessionForRequest(ssession)
    /\ UNCHANGED <<spc, sleaked, sresult>>

\* _search_github with a token issues its GET request (lines 186-193)
SharedGithubIssue(c) ==
    /\ spc[c] = "gather"
    /\ stasks[c]["github"].pc = "new"
    /\ ssession' = SessionForRequest(ssession)
    /\ stasks' = [stasks EXCEPT ![c]["github"] = SharedTask("get", 1, "cur", FALSE)]
    /\ UNCHANGED <<spc, sleaked, sresult>>

\* the GET request ends: 200 and one repository, or, on a session closed
\* under it, possibly a raise, which line 216 turns into []
SharedGithubEnds(c, ok) ==
    /\ spc[c] = "gather"
    /\ stasks[c]["github"].pc = "get"
    /\ stasks[c]["github"].on # "cut" => ok
    /\ stasks' = [stasks EXCEPT ![c]["github"] = SharedTask("done", 0, "none", ok)]
    /\ UNCHANGED <<spc, ssession, sleaked, sresult>>

\* the Resource objects of the tasks that found one, in gather order
SharedGathered(c, tasks) ==
    LET Found(kind) == IF tasks[kind].got
                       THEN <<[type |-> ResourceTypeOf(kind), use_case_id |-> SharedTitle(c)]>>
                       ELSE <<>>
    IN  Found("datasets") \o Found("documentation") \o Found("github")

\* every request in flight on the session self.session refers to
RequestsOnCurrent(tasks, to) ==
    [c \in Calls |->
        [kind \in TaskKinds |->
            IF tasks[c][kind].on = "cur" THEN [tasks[c][kind] EXCEPT !.on = to]
            ELSE tasks[c][kind]]]

\* the gather of the call's use case is complete: lines 67-72 extend
\* all_resources, the loop ends and the finally clause runs
\* _cleanup_session, which closes self.session if it is set and open
\* (lines 36-38) and awaits the close
SharedGatherDone(c) ==
    /\ spc[c] = "gather"
    /\ \A kind \in TaskKinds : stasks[c][kind].pc = "done"
    /\ sresult' = [sresult EXCEPT ![c] = SharedGathered(c, stasks[c])]
    /\ IF ssession = "open"
       THEN /\ spc' = [spc EXCEPT ![c] = "closing"]
            /\ ssession' = "closed"
            /\ stasks' = RequestsOnCurrent(stasks, "cut")
       ELSE /\ spc' = [spc EXCEPT ![c] = "done"]
            /\ UNCHANGED <<ssession, stasks>>
    /\ UNCHANGED sleaked

\* the close has returned: line 42 sets self.session to None, whatever it
\* refers to by now, and collect_resources returns all_resources
SharedCloseEnds(c) ==
    /\ spc[c] = "closing"
    /\ spc' = [spc EXCEPT ![c] = "done"]
    /\ ssession' = "none"
    /\ sleaked' = IF ssession = "open" THEN sleaked + 1 ELSE sleaked
    /\ stasks' = IF ssession = "open" THEN RequestsOnCurrent(stasks, "dropped")
                 ELSE stasks
    /\ UNCHANGED sresult

-----------------------------------------------------------------------------
(* Report stage (markdown_generator.py)                                    *)

\* A use case or a resource handed to the report is a Python dict or a
\* dataclass object; x[k] works on a dict that has k, and raises KeyError on
\* a dict without k and TypeError on an object.
AsDict(f) == [type |-> "dict", f |-> f]
AsObj(f) == [type |-> "obj", f |-> f]

CanSubscript(x, ks) == x.type = "dict" /\ ks \subseteq DOMAIN x.f

\* a text is a sequence of lines, a line a pair <<fixed part, inserted value>>
Line(label, value) == <<label, value>>

ResourceKeys == {"title", "url", "description"}

\* one "- [title](url) - description" line
ResourceLine(r) == Line("- ", <<r.f["title"], r.f["url"], r.f["description"]>>)

\* one "if resources.get(key): heading + one line per resource" block of
\* _format_resources
FormatKind(resources, key, heading) ==
    LET items == DictGet(resources, key, <<>>)
    IN  IF ~Truthy(items) THEN [raised |-> FALSE, text |-> <<>>]
        ELSE IF \E i \in 1..Len(items) : ~CanSubscript(items[i], ResourceKeys)
        THEN [raised |-> TRUE, text |-> <<>>]
        ELSE [raised |-> FALSE,
              text |-> <<Line(heading, "")>>
                       \o [i \in 1..Len(items) |-> ResourceLine(items[i])]]

\* _format_resources, lines 42-59
FormatResources(resources) ==
    LET d == FormatKind(resources, "datasets", "##### Datasets")
        o == FormatKind(resources, "documentation", "##### Documentation & References")
        g == FormatKind(resources, "github", "##### GitHub Repositories")
    IN  [raised |-> d.raised \/ o.raised \/ g.raised,
         text |-> d.text \o o.text \o g.text]

UseCaseKeys == {"title", "description", "impact", "complexity", "timeline"}

\* _format_use_case, lines 30-40: resources must be a dict (.get), and so
\* must the entry found under the title
FormatUseCase(use_case, resources) ==
    IF ~CanSubscript(use_case, UseCaseKeys) \/ resources.type # "dict"
    THEN [raised |-> TRUE, text |-> <<>>]
    ELSE LET own == DictGet(resources.items, use_case.f["title"], PyDict(EmptyDict))
             res == IF own.type = "dict" THEN FormatResources(own.items)
                    ELSE [raised |-> TRUE, text |-> <<>>]
         IN  [raised |-> res.raised,
              text |-> <<Line("### ", use_case.f["title"]),
                         Line("- **Description**: ", use_case.f["description"]),
                         Line("- **Business Impact**: ", use_case.f["impact"]),
                         Line("- **Complexity**: ", use_case.f["complexity"]),
                         Line("- **Timeline**: ", use_case.f["timeline"]),
                         Line("#### Resources & Datasets", "")>> \o res.text]

\* markdown += ...: a raise anywhere ends the call
JoinTexts(a, b) == [raised |-> a.raised \/ b.raised, text |-> a.text \o b.text]

\* the "for use_case in use_cases: markdown += ..." loop of generate_report
RECURSIVE FormatUseCases(_, _)
FormatUseCases(use_cases, resources) ==
    IF use_cases = <<>> THEN [raised |-> FALSE, text |-> <<>>]
    ELSE JoinTexts(FormatUseCase(Head(use_cases), resources),
                   FormatUseCases(Tail(use_cases), resources))

\* a generate_report that numbers its reports
GenerateReportNumbered(company, analysis, use_cases, resources) ==
    LET body == FormatUseCases(use_cases, resources)
    IN  [raised |-> body.raised,
         text |-> IF body.raised THEN <<>>
                  ELSE <<Line("# Market Research & AI Use Case Analysis: ", company),
                         Line("report no. ", Len(rlog))>> \o body.text]

\* generate_report, lines 7-28, on the analysis as a dict
GenerateReport(company, analysis, use_cases, resources) ==
    LET body == FormatUseCases(use_cases, resources)
    IN  [raised |-> body.raised,
         text |-> IF body.raised THEN <<>>
                  ELSE <<Line("# Market Research & AI Use Case Analysis: ", company),
                         Line("## Company Analysis", ""),
                         Line("Industry: ", DictGet(analysis, "industry", "")),
                         Line("Business Model: ", DictGet(analysis, "business_model", "")),
                         Line("Key Products: ", DictGet(analysis, "key_products", <<>>)),
                         Line("Market Position: ", DictGet(analysis, "market_position", "")),
                         Line("Competitors: ", DictGet(analysis, "competitors", <<>>)),
                         Line("AI Readiness Score: ", DictGet(analysis, "ai_readiness", 0)),
                         Line("## Industry Trends & Market Position", ""),
                         Line("", DictGet(analysis, "trends", "")),
                         Line("## AI/ML Use Cases", "")>> \o body.text]

\* line 9 of generate_report: a dict is used as it is, a CompanyAnalysis
\* through to_dict()
AnalysisDictOf(analysis) ==
    IF analysis.type = "dict" THEN analysis.f ELSE ToDict(analysis.f)

\* save_resources, lines 62-68: what resources.md holds after the call;
\* open(..., "w") empties the file, and a raise in the loop leaves what was
\* written before it
SaveResources(company, resources) ==
    LET header == <<Line("# AI Resources for ", company)>>
        titles == IF resources.type = "dict" THEN DOMAIN resources.items ELSE {}
    IN  IF resources.type # "dict" THEN [raised |-> TRUE, file |-> header]
        ELSE IF \E t \in titles : resources.items[t].type # "dict"
                                    \/ FormatResources(resources.items[t].items).raised
        THEN [raised |-> TRUE, file |-> header]
        ELSE [raised |-> FALSE,
              file |-> header \o
                       <<[t \in titles |->
                            <<Line("## ", t)>> \o FormatResources(resources.items[t].items).text]>>]

\* arguments the report generator is called with
ReportCase(title) ==
    AsDict([title |-> title, description |-> "d", impact |-> "i",
            complexity |-> "c", timeline |-> "m"])

ReportResources ==
    {PyDict([t \in {"t1"} |->
               PyDict([k \in {"datasets"} |->
                         <<AsDict([title |-> "hit", url |-> "u1", description |-> ""])>>])]),
     PyList(<<>>)}

ReportInputs ==
    ({"acme"}
       \X ({AsDict(EmptyDict)} \cup {AsObj(a) : a \in {o \in AnalysisObjects : o.company_name = "acme"}})
       \X {<<ReportCase("t1"), ReportCase("t2")>>, <<AsObj(ReportCase("t1").f)>>}
       \X ReportResources)
    \cup {<<"globex", AsDict(EmptyDict),
            <<AsDict([k \in UseCaseKeys \ {"impact"} |-> ReportCase("t1").f[k]])>>,
            PyDict(EmptyDict)>>}

RIdle ==
    /\ rinputs = <<"acme", AsDict(EmptyDict), <<>>, PyDict(EmptyDict)>>
    /\ rlog = <<>>
    /\ rfile = <<>>

RInit ==
    /\ rinputs \in ReportInputs
    /\ rlog = <<>>
    /\ rfile = <<>>

\* the caller calls generate_report on what it holds; the method assigns to
\* none of its arguments
ReportCall ==
    /\ Len(rlog) < MaxCalls
    /\ UNCHANGED rinputs
    /\ rlog' = Append(rlog,
                 [args |-> rinputs,
                  out |-> GenerateReport(rinputs[1], AnalysisDictOf(rinputs[2]),
                                         rinputs[3], rinputs[4]),
                  after |-> rinputs'])
    /\ UNCHANGED rfile

\* the caller calls save_resources on what it holds
SaveResourcesCall ==
    /\ rfile' = SaveResources(rinputs[1], rinputs[4]).file
    /\ UNCHANGED <<rinputs, rlog>>

\* the caller goes on with other arguments
OtherInputs(inputs) ==
    /\ inputs # rinputs
    /\ rinputs' = inputs
    /\ UNCHANGED <<rlog, rfile>>

-----------------------------------------------------------------------------
(* Workflow graph (streamlit_app.py)                                       *)

RecursionLimit == 50

Nodes == {"research", "generate_use_cases", "collect_resources", "generate_report"}

\* run_workflow, lines 115-123
InitialState(company, now) ==
    [company |-> company, timestamp |-> now, analysis |-> EmptyDict,
     use_cases |-> <<>>, resources |-> PyDict(EmptyDict), report |-> <<>>]

\* should_continue, lines 55-62
ShouldContinue(state) ==
    IF ~Truthy(state.analysis) THEN "generate_use_cases"
    ELSE IF ~Truthy(state.use_cases) THEN "collect_resources"
    ELSE IF ~Truthy(state.resources.items) THEN "generate_report"
    ELSE "END"

\* the destinations declared by add_conditional_edges for each node
EdgeMap(node) ==
    CASE node = "research" ->
            {"generate_use_cases", "collect_resources", "generate_report", "END"}
      [] node = "generate_use_cases" -> {"collect_resources", "generate_report", "END"}
      [] node = "collect_resources" -> {"generate_report", "END"}
      [] node = "generate_report" -> {"END"}

\* which optional fields of the state are populated
Populated(state) ==
    [analysis |-> Truthy(state.analysis), use_cases |-> Truthy(state.use_cases),
     resources |-> Truthy(state.resources.items), report |-> state.report # <<>>]


\* the list a collect_resources call on a non-empty use-case list returns,
\* as far as the graph looks at it: empty, or Resource objects
Collected(use_cases, found) ==
    IF found
    THEN <<AsObj([title |-> "hit", url |-> "u1", description |-> "",
                  use_case_id |-> Head(use_cases).f["title"]])>>
    ELSE <<>>

\* the external outcomes a step of the graph at a node can meet: the
\* searches, the model and the store for research, the collector's searches
\* and probes for collect_resources
AnyResponse == CHOOSE r \in AnalysisResponses : TRUE

ExtOutcomes(node) ==
    CASE node = "research" ->
            [okQueries : SUBSET Queries, response : AnalysisResponses,
             storeOk : BOOLEAN, found : {FALSE}]
      [] node = "collect_resources" ->
            [okQueries : {Queries}, response : {AnyResponse},
             storeOk : {TRUE}, found : BOOLEAN]
      [] OTHER ->
            [okQueries : {Queries}, response : {AnyResponse},
             storeOk : {TRUE}, found : {FALSE}]

\* every external call of a research stage succeeded and returned valid data
ExtAllOk(ext) ==
    /\ ext.okQueries = Queries
    /\ ext.storeOk
    /\ ~ParseAnalysisResponse(ext.response, "", 0).raised
    /\ ext.response.kind = "text"

\* node functions whose research update also stamps the state anew
NodeUpdateStamping(node, state, ext, now) ==
    CASE node = "research" ->
            LET r == ResearchCompany(state.company, ext.okQueries, ext.response, now)
            IN  [raised |-> r.raised,
                 state |-> [state EXCEPT !.analysis = r.value, !.timestamp = now]]
      [] node = "generate_use_cases" -> [raised |-> TRUE, state |-> state]
      [] node = "collect_resources" ->
            [raised |-> FALSE,
             state |-> [state EXCEPT !.resources =
                          PyList(IF ~Truthy(state.use_cases) THEN <<>>
                                 ELSE Collected(state.use_cases, ext.found))]]
      [] node = "generate_report" ->
            LET r == GenerateReport(state.company, state.analysis,
                                    state.use_cases, state.resources)
            IN  [raised |-> r.raised, state |-> [state EXCEPT !.report = r.text]]

\* the node functions of _create_workflow_graph, lines 34-53: the update
\* each returns, or that it raised
NodeUpdate(node, state, ext, now) ==
    CASE node = "research" ->
            LET r == ResearchCompany(state.company, ext.okQueries, ext.response, now)
            IN  [raised |-> r.raised, state |-> [state EXCEPT !.analysis = r.value]]
      [] node = "generate_use_cases" ->
            \* generate_use_cases reads analysis.company_name: the analysis in
            \* the state is the dict research returned, so this raises
            [raised |-> TRUE, state |-> state]
      [] node = "collect_resources" ->
            \* collect_resources returns [] at once on an empty use-case list
            [raised |-> FALSE,
             state |-> [state EXCEPT !.resources =
                          PyList(IF ~Truthy(state.use_cases) THEN <<>>
                                 ELSE Collected(state.use_cases, ext.found))]]
      [] node = "generate_report" ->
            LET r == GenerateReport(state.company, state.analysis,
                                    state.use_cases, state.resources)
            IN  [raised |-> r.raised, state |-> [state EXCEPT !.report = r.text]]

\* a graph that goes on to the next stage after a node raised
OnStageErrorSkip(node) ==
    IF node = "research" THEN "collect_resources" ELSE "failed"

\* a graph that swallows the error of a node and never hands control back
OnStageErrorHang(node) == "hung"

\* a graph that runs the failed node again instead of giving up
OnStageErrorRetry(node) == node

\* what the graph does when a node raises: the error leaves ainvoke and
\* run_workflow (lines 138-140 log it and re-raise)
OnStageError(node) == "failed"

\* what the graph does when should_continue names a destination the edge
\* map of the node does not declare: the lookup raises
OnUndeclared(node, dest) == "failed"

WInit ==
    /\ wpc = "idle"
    /\ wstate = InitialState("", 0)
    /\ invocations = <<>>
    /\ raisedAt = "none"
    /\ raisedError = "none"
    /\ result = [kind |-> "none", value |-> <<>>]
    /\ checkpoint = EmptyDict
    /\ analysisStore = EmptyDict
    /\ storeLog = <<>>
    /\ lastAnalysis = EmptyDict
    /\ runs = 0
    /\ allOk = TRUE
    /\ resumable = FALSE
    /\ steps = 0

\* run_workflow(company) is called: lines 115-132 up to the first node
RunWorkflow(company) ==
    /\ wpc \in {"idle", "returned", "failed"}
    /\ runs < MaxRuns
    /\ runs' = runs + 1
    /\ wstate' = InitialState(company, runs + 1)
    /\ wpc' = "research"
    /\ invocations' = <<>>
    /\ raisedAt' = "none"
    /\ raisedError' = "none"
    /\ result' = [kind |-> "none", value |-> <<>>]
    /\ allOk' = TRUE
    /\ steps' = 0
    /\ resumable' = /\ company \in DOMAIN checkpoint
                    /\ Populated(checkpoint[company]) =
                         [analysis |-> TRUE, use_cases |-> FALSE,
                          resources |-> FALSE, report |-> FALSE]
    \* the input is written over every channel of the thread and saved
    /\ checkpoint' = [c \in DOMAIN checkpoint \cup {company} |->
                        IF c = company THEN InitialState(company, runs + 1)
                        ELSE checkpoint[c]]
    /\ storeLog' = <<>>
    /\ UNCHANGED <<analysisStore, lastAnalysis>>

\* one step of graph.ainvoke: the current node runs, its update is merged,
\* should_continue picks the destination; at END run_workflow returns
\* result["report"] (lines 134-135), on an error it re-raises
GraphStep(ext) ==
    /\ wpc \in Nodes
    /\ LET node == wpc
           upd == NodeUpdate(node, wstate, ext, runs)
           dest == ShouldContinue(upd.state)
           stored == node = "research" /\ ~upd.raised
           next == IF steps >= RecursionLimit THEN "failed"
                   ELSE IF upd.raised THEN OnStageError(node)
                   ELSE IF dest \notin EdgeMap(node) THEN OnUndeclared(node, dest)
                   ELSE IF dest = "END" THEN "returned"
                   ELSE dest
       IN  /\ steps' = steps + 1
           /\ invocations' = IF steps >= RecursionLimit THEN invocations
                             ELSE Append(invocations,
                                         [node |-> node, pre |-> Populated(wstate),
                                          dest |-> IF upd.raised THEN "none" ELSE dest])
           /\ allOk' = (allOk /\ (node = "research" => ExtAllOk(ext)))
           /\ analysisStore' =
                 IF stored
                 THEN StoreAnalysis(analysisStore, wstate.company,
                                    ResearchCompany(wstate.company, ext.okQueries,
                                                    ext.response, runs).analysis,
                                    ext.storeOk)
                 ELSE analysisStore
           /\ storeLog' =
                 IF stored
                 THEN Append(storeLog, [coll |-> "market_research",
                                        id |-> wstate.company, ok |-> ext.storeOk])
                 ELSE storeLog
           /\ lastAnalysis' =
                 IF stored
                 THEN [c \in DOMAIN lastAnalysis \cup {wstate.company} |->
                         IF c = wstate.company THEN upd.state.analysis
                         ELSE lastAnalysis[c]]
                 ELSE lastAnalysis
           /\ raisedAt' = IF steps >= RecursionLimit THEN "limit"
                          ELSE IF upd.raised THEN node
                          ELSE IF dest \notin EdgeMap(node) THEN "route"
                          ELSE raisedAt
           /\ raisedError' =
                 IF steps >= RecursionLimit THEN "GraphRecursionError"
                 ELSE IF upd.raised
                 THEN IF node = "research"
                      THEN ResearchCompany(wstate.company, ext.okQueries,
                                           ext.response, runs).error
                      ELSE "Exception"
                 ELSE IF dest \notin EdgeMap(node) THEN "KeyError"
                 ELSE raisedError
           /\ wpc' = next
           /\ wstate' = IF next \in Nodes \cup {"returned"} /\ ~upd.raised
                           /\ dest \in EdgeMap(node)
                        THEN upd.state ELSE wstate
           /\ checkpoint' = [checkpoint EXCEPT ![wstate.company] = wstate']
           /\ result' = CASE next = "returned" ->
                               [kind |-> "value", value |-> upd.state.report]
                          [] next = "failed" -> [kind |-> "raise", value |-> <<>>]
                          [] OTHER -> result
    /\ UNCHANGED <<runs, resumable>>

\* the states a node function can be called on: the fields of
\* WorkflowState with values of the kinds the stages produce
StageStates ==
    [company : Companies, timestamp : {1, 2},
     analysis : {EmptyDict} \cup {ToDict(a) : a \in AnalysisObjects},
     use_cases : {<<>>, <<AsObj(ReportCase("t1").f)>>},
     resources : {PyDict(EmptyDict), PyList(<<>>)},
     report : {<<>>}]

\* one node function is about to be called on a state
StageInit ==
    /\ wpc \in Nodes
    /\ wstate \in StageStates
    /\ invocations = <<>>
    /\ raisedAt = "none"
    /\ raisedError = "none"
    /\ result = [kind |-> "none", value |-> <<>>]
    /\ checkpoint = EmptyDict
    /\ analysisStore = EmptyDict
    /\ storeLog = <<>>
    /\ lastAnalysis = EmptyDict
    /\ runs = 0
    /\ allOk = TRUE
    /\ resumable = FALSE
    /\ steps = 0
    /\ GIdle /\ CIdle /\ RIdle /\ QIdle /\ SIdle

\* the node function runs (lines 34-53) and the update it returns is merged
\* into the state: every key of the update replaces the value of its channel
StageStep(ext) ==
    /\ wpc \in Nodes
    /\ LET node == wpc
           upd == NodeUpdate(node, wstate, ext, runs)
           stored == node = "research" /\ ~upd.raised
       IN  /\ wstate' = IF upd.raised THEN wstate ELSE upd.state
           /\ wpc' = IF upd.raised THEN "failed" ELSE "updated"
           /\ raisedAt' = IF upd.raised THEN node ELSE raisedAt
           /\ invocations' = Append(invocations,
                                    [node |-> node, pre |-> Populated(wstate),
                                     dest |-> "none"])
           /\ analysisStore' =
                 IF stored
                 THEN StoreAnalysis(analysisStore, wstate.company,
                                    ResearchCompany(wstate.company, ext.okQueries,
                                                    ext.response, runs).analysis,
                                    ext.storeOk)
                 ELSE analysisStore
           /\ lastAnalysis' =
                 IF stored
                 THEN [c \in {wstate.company} |-> upd.state.analysis]
                 ELSE lastAnalysis
           /\ steps' = steps + 1
    /\ UNCHANGED <<raisedError, result, checkpoint, storeLog, runs, allOk, resumable>>

vars == <<wvars, gvars, cvars, rvars, qvars, svars>>

Init == WInit /\ GIdle /\ CIdle /\ RIdle /\ QIdle /\ SIdle

Next ==
    \/ (\E company \in Companies : RunWorkflow(company)) /\ UNCHANGED <<gvars, cvars, rvars, qvars, svars>>
    \/ (\E ext \in ExtOutcomes(wpc) : GraphStep(ext)) /\ UNCHANGED <<gvars, cvars, rvars, qvars, svars>>

Spec == Init /\ [][Next]_vars

\* the workflow under the scheduling of the event loop: every external call
\* a node awaits returns or fails, and the coroutine of ainvoke is resumed,
\* so a step of the graph that can be taken is taken
LiveNext ==
    \/ (\E company \in Companies : RunWorkflow(company) /\ runs < MaxLiveRuns)
          /\ UNCHANGED <<gvars, cvars, rvars, qvars, svars>>
    \/ (\E ext \in ExtOutcomes(wpc) : GraphStep(ext)) /\ UNCHANGED <<gvars, cvars, rvars, qvars, svars>>

SpecLive ==
    /\ Init /\ [][LiveNext]_vars
    /\ WF_vars((\E ext \in ExtOutcomes(wpc) : GraphStep(ext))
                  /\ UNCHANGED <<gvars, cvars, rvars, qvars, svars>>)

\* one node function called on a state
StageNext ==
    (\E ext \in ExtOutcomes(wpc) : StageStep(ext)) /\ UNCHANGED <<gvars, cvars, rvars, qvars, svars>>

SpecStage == StageInit /\ [][StageNext]_vars

\* two collect_resources calls on one collector, overlapping or not
SharedNext ==
    \/ (\E c \in Calls : SharedStart(c))
          /\ UNCHANGED <<wvars, gvars, cvars, rvars, qvars>>
    \/ (\E c \in Calls, kind \in SearchKinds : SharedSearchReturns(c, kind))
          /\ UNCHANGED <<wvars, gvars, cvars, rvars, qvars>>
    \/ (\E c \in Calls, kind \in SearchKinds, ok \in BOOLEAN : SharedHeadEnds(c, kind, ok))
          /\ UNCHANGED <<wvars, gvars, cvars, rvars, qvars>>
    \/ (\E c \in Calls : SharedGithubIssue(c))
          /\ UNCHANGED <<wvars, gvars, cvars, rvars, qvars>>
    \/ (\E c \in Calls, ok \in BOOLEAN : SharedGithubEnds(c, ok))
          /\ UNCHANGED <<wvars, gvars, cvars, rvars, qvars>>
    \/ (\E c \in Calls : SharedGatherDone(c))
          /\ UNCHANGED <<wvars, gvars, cvars, rvars, qvars>>
    \/ (\E c \in Calls : SharedCloseEnds(c))
          /\ UNCHANGED <<wvars, gvars, cvars, rvars, qvars>>

SharedInit == SIdle /\ WInit /\ GIdle /\ CIdle /\ RIdle /\ QIdle

SpecShared == SharedInit /\ [][SharedNext]_vars

\* generate_use_cases called on its own
GenInit == GInit /\ WInit /\ CIdle /\ RIdle /\ QIdle /\ SIdle

GenNext ==
    \/ (\E response \in UseCaseResponses : GenerateInitial(response))
          /\ UNCHANGED <<wvars, cvars, rvars, qvars, svars>>
    \/ ScoreIssue
          /\ UNCHANGED <<wvars, cvars, rvars, qvars, svars>>
    \/ (\E response \in ScoreResponses : ScoreArrive(response))
          /\ UNCHANGED <<wvars, cvars, rvars, qvars, svars>>
    \/ (\E storeOk \in BOOLEAN : RankAndStore(storeOk))
          /\ UNCHANGED <<wvars, cvars, rvars, qvars, svars>>

SpecGen == GenInit /\ [][GenNext]_vars

\* collect_resources called on its own
CollectInit == CInit /\ WInit /\ GIdle /\ RIdle /\ QIdle /\ SIdle

CollectNext ==
    \/ (\E sessionOk \in BOOLEAN : CollectStart(sessionOk))
          /\ UNCHANGED <<wvars, gvars, rvars, qvars, svars>>
    \/ (\E kind \in SearchKinds, outcome \in SearchOutcomes : SearchAttempt(kind, outcome))
          /\ UNCHANGED <<wvars, gvars, rvars, qvars, svars>>
    \/ (\E kind \in SearchKinds, outcome \in ProbeOutcomes : ProbeAttempt(kind, outcome))
          /\ UNCHANGED <<wvars, gvars, rvars, qvars, svars>>
    \/ (\E outcome \in GithubOutcomes : GithubSearch(outcome))
          /\ UNCHANGED <<wvars, gvars, rvars, qvars, svars>>
    \/ GatherDone /\ UNCHANGED <<wvars, gvars, rvars, qvars, svars>>

SpecCollect == CollectInit /\ [][CollectNext]_vars

\* one dataset or documentation search of a use case running alone: the
\* other two searches of the gather have returned nothing
SearchInit ==
    /\ cpc = "gather"
    /\ cinput = <<"t1">>
    /\ ctoken = FALSE
    /\ cuc = 1
    /\ \E kind \in SearchKinds :
          ctasks = [k \in TaskKinds |->
                      IF k = kind THEN NewTask(k) ELSE DoneTask(<<>>, FALSE, FALSE)]
    /\ csession = "open"
    /\ copen = 1
    /\ call = <<>>
    /\ cresult = PyList(<<>>)
    /\ cprobes = EmptyDict
    /\ WInit /\ GIdle /\ RIdle /\ QIdle /\ SIdle

SearchNext ==
    \/ (\E kind \in SearchKinds, outcome \in SearchOutcomesUpTo(MaxResults) :
            SearchAttempt(kind, outcome))
          /\ UNCHANGED <<wvars, gvars, rvars, qvars, svars>>
    \/ (\E kind \in SearchKinds, outcome \in ProbeOutcomes : ProbeAttempt(kind, outcome))
          /\ UNCHANGED <<wvars, gvars, rvars, qvars, svars>>
    \/ GatherDone /\ UNCHANGED <<wvars, gvars, rvars, qvars, svars>>

SpecSearch == SearchInit /\ [][SearchNext]_vars

\* research_company called on its own
ResearchInit == QInit /\ WInit /\ GIdle /\ CIdle /\ RIdle /\ SIdle

ResearchNext ==
    \/ (\E query \in Queries, outcome \in QueryOutcomes : QuerySearch(query, outcome))
          /\ UNCHANGED <<wpc, wstate, invocations, raisedAt, raisedError, result,
                         checkpoint, storeLog, runs, allOk, resumable, steps>>
          /\ UNCHANGED <<gvars, cvars, rvars, svars>>
    \/ (\E response \in AnalysisResponses, storeOk \in BOOLEAN :
            QueryAnalyze(response, storeOk))
          /\ UNCHANGED <<wpc, wstate, invocations, raisedAt, raisedError, result,
                         checkpoint, storeLog, runs, allOk, resumable, steps>>
          /\ UNCHANGED <<gvars, cvars, rvars, svars>>

SpecResearch == ResearchInit /\ [][ResearchNext]_vars

\* research_company or generate_use_cases called on its own
StoreInit ==
    \/ ResearchInit
    \/ GenInit

StoreNext ==
    \/ ResearchNext
    \/ GenNext

SpecStore == StoreInit /\ [][StoreNext]_vars

\* the report generator called on its own
ReportInit == RInit /\ WInit /\ GIdle /\ CIdle /\ QIdle /\ SIdle

ReportNext ==
    \/ ReportCall /\ UNCHANGED <<wvars, gvars, cvars, qvars, svars>>
    \/ SaveResourcesCall /\ UNCHANGED <<wvars, gvars, cvars, qvars, svars>>
    \/ (\E inputs \in ReportInputs : OtherInputs(inputs)) /\ UNCHANGED <<wvars, gvars, cvars, qvars, svars>>

SpecReport == ReportInit /\ [][ReportNext]_vars

-----------------------------------------------------------------------------
(* Properties of the workflow graph                                        *)

\* the stages the current run invoked, in order
StageSeq == [i \in 1..Len(invocations) |-> invocations[i].node]

RunOver == wpc \in {"returned", "failed"}

Count(seq, x) == Cardinality({i \in 1..Len(seq) : seq[i] = x})

\* C1: a run in which every external call succeeded invokes Research,
\* Use-Case Generation, Resource Collection and Report in that order, each
\* once, and returns the report the Report stage rendered.
C1_FourStagesInOrder ==
    (RunOver /\ allOk) =>
        /\ wpc = "returned"
        /\ StageSeq = <<"research", "generate_use_cases",
                        "collect_resources", "generate_report">>
        /\ result = [kind |-> "value", value |-> wstate.report]
        /\ wstate.report # <<>>

\* C2: a stage is invoked only when the field its predecessor writes is
\* populated: Use-Case Generation with an analysis, Resource Collection with
\* use cases, Report with resources.
C2_PredecessorPopulated ==
    \A i \in 1..Len(invocations) :
        /\ invocations[i].node = "generate_use_cases" => invocations[i].pre.analysis
        /\ invocations[i].node = "collect_resources" => invocations[i].pre.use_cases
        /\ invocations[i].node = "generate_report" => invocations[i].pre.resources

\* C3: a run started for a subject whose saved workflow state has only the
\* analysis populated does not invoke Research, issues no write to the
\* analysis store, and runs exactly Use-Case Generation, Resource Collection
\* and Report.
C3_ResumeSkipsResearch ==
    resumable =>
        /\ Count(StageSeq, "research") = 0
        /\ \A i \in 1..Len(storeLog) : storeLog[i].coll # "market_research"
        /\ RunOver => StageSeq = <<"generate_use_cases", "collect_resources",
                                   "generate_report">>

\* C4: when a stage raises, the run is failed: run_workflow raises to its
\* caller, the stage that raised is the last one invoked in the run, and it
\* was invoked once.
C4_StageErrorFailsRun ==
    raisedAt \in Nodes =>
        /\ wpc = "failed"
        /\ result.kind = "raise"
        /\ invocations # <<>>
        /\ invocations[Len(invocations)].node = raisedAt
        /\ Count(StageSeq, raisedAt) = 1

C4_Witness ==
    /\ raisedAt = "research"
    /\ wpc = "failed"
    /\ result.kind = "raise"
    /\ StageSeq = <<"research">>

\* C11: when the model's answer to the analysis request is not valid JSON,
\* research raises and the run is failed: run_workflow raises, no document
\* was upserted in that run, and no stage after Research was invoked, so
\* that no use case was stored and no resource search or probe was issued.
C11_InvalidJsonFailsRun ==
    raisedError = "JSONDecodeError" =>
        /\ wpc = "failed"
        /\ raisedAt = "research"
        /\ result.kind = "raise"
        /\ storeLog = <<>>
        /\ StageSeq = <<"research">>
        /\ ~Truthy(wstate.analysis) /\ ~Truthy(wstate.use_cases)
        /\ ~Truthy(wstate.resources.items)

\* a second run, for a company whose analysis an earlier run stored, got
\* an answer that is not valid JSON: it failed and the stored document is
\* the earlier one
C11_Witness ==
    /\ raisedError = "JSONDecodeError"
    /\ wpc = "failed"
    /\ runs = 2
    /\ storeLog = <<>>
    /\ wstate.company \in DOMAIN analysisStore
    /\ analysisStore[wstate.company]["timestamp"] = <<"str", 1>>

\* the titles of the "### " sections of a report, in order
SectionTitles(text) ==
    LET IsSection(l) == l[1] = "### "
        sections == SelectSeq(text, IsSection)
    IN  [i \in 1..Len(sections) |-> sections[i][2]]

\* C12: a run in which every collaborator succeeded returns a report with
\* one section per generated use case, in the order of the ranked list, and
\* at least one such section.
C12_FullRunReportSections ==
    (RunOver /\ allOk) =>
        /\ result.kind = "value"
        /\ Truthy(wstate.use_cases)
        /\ SectionTitles(result.value) =
               [i \in 1..Len(wstate.use_cases) |-> wstate.use_cases[i].f["title"]]

\* C15: research_company raises only after it has asked the model, so no
\* failing search aborts it; a search whose request failed contributed the
\* empty list, and the model is asked with the relevant hits of the
\* searches that succeeded, in the order of the gather.
C15_SearchFailuresSuppressed ==
    /\ qpc = "raised" => qasked.asked
    /\ \A q \in Queries :
          (qsearch[q].pc = "done" /\ qsearch[q].outcome.raised) => qsearch[q].items = <<>>
    /\ qasked.asked =>
          LET Kept(q) ==
                  IF qsearch[q].outcome.raised THEN <<>>
                  ELSE LET hits == QueryHits(q, qsearch[q].outcome.scores)
                           Relevant(r) == r.relevance_score >= 6
                       IN  SelectSeq(hits, Relevant)
          IN  qasked.search_results =
                 Kept("company_info") \o Kept("industry_trends") \o Kept("competitors")

\* the first and the third search failed, the second one found relevant
\* hits; the model was asked with those and research_company returned
C15_Witness ==
    /\ qpc = "done"
    /\ qsearch["company_info"].outcome.raised
    /\ ~qsearch["industry_trends"].outcome.raised
    /\ qsearch["competitors"].outcome.raised
    /\ qasked.asked
    /\ qasked.search_results # <<>>
    /\ qresult.kind = "value"

\* C21: when the JSON object the model returned lacks required keys,
\* research_company raises the ValueError of line 134, which carries exactly
\* the required keys the object lacks; no analysis is built or returned and
\* the analysis store is left as it was (empty).
C21_MissingKeysFail ==
    LET answer == qasked.response
    IN  (/\ qasked.asked
         /\ answer.kind = "text"
         /\ answer.fence # "open_fence"
         /\ answer.json = "object"
         /\ \E k \in RequiredFields : k \notin DOMAIN answer.content)
        => /\ qpc = "raised"
           /\ qresult.kind = "raise"
           /\ qresult.error = "ValueError"
           /\ qresult.missing =
                  {k \in RequiredFields : k \notin DOMAIN answer.content}
           /\ qresult.value = EmptyDict
           /\ analysisStore = EmptyDict

\* the model's object lacked industry and trends, and only those
C21_Witness ==
    /\ qpc = "raised"
    /\ qasked.asked
    /\ qasked.response.kind = "text"
    /\ qasked.response.json = "object"
    /\ DOMAIN qasked.response.content = RequiredFields \ {"industry", "trends"}
    /\ qresult.error = "ValueError"
    /\ qresult.missing = {"industry", "trends"}

\* C22: when the model's answer to the generation request is JSON that is
\* no array, or an array with an element that lacks one of the seven keys
\* the prompt asks of every use case, generate_use_cases raises, having
\* issued no scoring request and written no use-case document.
C22_MalformedArrayFails ==
    LET PromptKeys == SubscriptedKeys \cup DefaultedKeys
        Malformed ==
            \/ ganswer.top = "object"
            \/ /\ ganswer.top = "array"
               /\ \E i \in 1..Len(ganswer.keys) : ~(PromptKeys \subseteq ganswer.keys[i])
    IN  (gpc # "generate" /\ Malformed)
        => /\ gpc = "raised"
           /\ greqs = <<>>
           /\ gstore = EmptyDict

\* C23: when generate_use_cases has returned for a company, the use-case
\* store holds for every position i (from 0) of the returned list a document
\* with the id {company}_usecase_{i} whose content is the use case at that
\* position, priority score included.
C23_StoredAtSortedPosition ==
    gpc = "done" =>
        \A i \in 1..Len(gresult) :
            /\ <<ganalysis.company_name, i - 1>> \in DOMAIN gstore
            /\ gstore[<<ganalysis.company_name, i - 1>>] = UseCaseDoc(gresult[i])

\* C24: no use case gets two scoring requests and a finished batch has one
\* request per use case; every response is the answer to the request of the
\* same position, and the score a use case has at the end is the score of the
\* response to its own request.
C24_OneRequestPerUseCase ==
    /\ \A j, k \in 1..Len(greqs) : greqs[j] = greqs[k] => j = k
    /\ \A j \in 1..Len(gresps) : gresps[j].id = greqs[j]
    /\ gpc = "done" =>
          /\ Len(greqs) = Len(gcases)
          /\ Len(gresps) = Len(greqs)
          /\ \A k \in 1..Len(gcases) :
                /\ \E j \in 1..Len(greqs) : greqs[j] = gcases[k].id
                /\ \A j \in 1..Len(gresps) :
                      gresps[j].id = gcases[k].id =>
                          gcases[k].priority_score =
                              CalculatePriorityScore(gresps[j].response)

\* a batch of three whose responses gave three different scores
C24_Witness ==
    /\ gpc = "done"
    /\ Len(gcases) = 3
    /\ greqs = <<1, 2, 3>>
    /\ gcases[1].priority_score = 10
    /\ gcases[2].priority_score = 5
    /\ gcases[3].priority_score = 8

\* C25: the scoring requests of a batch are issued concurrently: while the
\* response to a request is outstanding and a use case of the batch has no
\* request yet, the request for it can be issued; and the list is ranked
\* only when every response has arrived.
C25_ScoringConcurrent ==
    /\ (Len(greqs) > Len(gresps) /\ Len(greqs) < Len(gcases)) => ENABLED ScoreIssue
    /\ gpc = "done" => (Len(gresps) = Len(gcases) /\ Len(greqs) = Len(gcases))

\* C26: the analysis store holds one document for every company a research
\* call has returned for and for no other; the document of a company is
\* what the latest such call returned for it.
C26_StoreHoldsLatest ==
    /\ DOMAIN analysisStore = DOMAIN lastAnalysis
    /\ \A c \in DOMAIN lastAnalysis : analysisStore[c] = lastAnalysis[c]

\* the field of the workflow state each stage owns
Owned(node) ==
    CASE node = "research" -> "analysis"
      [] node = "generate_use_cases" -> "use_cases"
      [] node = "collect_resources" -> "resources"
      [] node = "generate_report" -> "report"

\* C27: the update of a stage changes no field of the workflow state but
\* the one the stage owns: the company, the timestamp and the fields of the
\* other stages are after the stage what they were before it.
C27_OwnFieldOnly ==
    [][(wpc \in Nodes) =>
          (\A f \in DOMAIN wstate \ {Owned(wpc)} : wstate'[f] = wstate[f])]_vars

\* research has filled the analysis of a state stamped 2 that held a use
\* case and a resource list
C27_Witness ==
    /\ wpc = "updated"
    /\ invocations = <<[node |-> "research",
                        pre |-> [analysis |-> FALSE, use_cases |-> TRUE,
                                 resources |-> FALSE, report |-> FALSE],
                        dest |-> "none"]>>
    /\ Truthy(wstate.analysis)
    /\ wstate.timestamp = 2
    /\ wstate.company = "globex"
    /\ wstate.resources = PyList(<<>>)

\* C29: every run_workflow call ends, by returning or by raising, whatever
\* the external calls of its stages answer, and no run invokes more than
\* recursion_limit = 50 stages.
C29_RunTerminates ==
    /\ [](Len(invocations) <= RecursionLimit /\ steps <= RecursionLimit)
    /\ (wpc \in Nodes) ~> (wpc \in {"returned", "failed"})

\* the second run of a behaviour has ended, after research and one more stage
C29_Witness ==
    /\ runs = 2
    /\ wpc = "failed"
    /\ Len(invocations) = 2
    /\ invocations[1].node = "research"
    /\ result.kind = "raise"

\* C30: the destination should_continue returned after a stage that did not
\* raise is one the conditional-edge map of that stage declares.
C30_RoutingDeclared ==
    \A i \in 1..Len(invocations) :
        invocations[i].dest # "none" =>
            invocations[i].dest \in EdgeMap(invocations[i].node)

\* what a call collects when it runs alone: its dataset, its documentation
\* and its repository
AloneResources(c) ==
    <<[type |-> ResourceTypeOf("datasets"), use_case_id |-> SharedTitle(c)],
      [type |-> ResourceTypeOf("documentation"), use_case_id |-> SharedTitle(c)],
      [type |-> ResourceTypeOf("github"), use_case_id |-> SharedTitle(c)]>>

C6_ReadinessClamped ==
    /\ Truthy(wstate.analysis) => wstate.analysis["ai_readiness"] \in 0..10
    /\ \A c \in DOMAIN analysisStore : analysisStore[c]["ai_readiness"] \in 0..10

-----------------------------------------------------------------------------
(* Properties of use-case generation                                       *)

\* C7: the sequence generate_use_cases returns is sorted non-increasing by
\* priority score, and use cases with equal scores are in the order they had
\* in the generated batch.
C7_SortedStable ==
    gpc = "done" =>
        \A i, j \in 1..Len(gresult) :
            i < j =>
                /\ gresult[i].priority_score >= gresult[j].priority_score
                /\ gresult[i].priority_score = gresult[j].priority_score
                     => gresult[i].id < gresult[j].id

\* a returned batch in which a tie had to keep its order and a later use
\* case had to move to the front
C7_Witness ==
    /\ gpc = "done"
    /\ Len(gresult) = 3
    /\ gresult[1].id = 3
    /\ gresult[2].id = 1
    /\ gresult[3].id = 2
    /\ gresult[2].priority_score = gresult[3].priority_score

\* the use case built from element id of the array, as it stands
CaseOf(id) == gcases[id]

Unparsable(response) == response.kind = "error" \/ response.value.t # "num"

\* C8: a scoring response that is no number, or a failed scoring call, never
\* makes generate_use_cases raise: that use case gets score 0.5, the scoring
\* goes on to every other use case, and all of them are returned.
C8_ScoringNeverRaises ==
    /\ \A k \in 1..Len(gresps) :
          Unparsable(gresps[k].response) => CaseOf(gresps[k].id).priority_score = 5
    /\ gpc = "raised" => gresps = <<>>
    /\ gpc = "done" =>
          /\ Len(gresps) = Len(gcases)
          /\ Len(gresult) = Len(gcases)
          /\ \A k \in 1..Len(gcases) :
                /\ gresps[k].id = k
                /\ \E i \in 1..Len(gresult) : gresult[i] = gcases[k]
                /\ ~Unparsable(gresps[k].response) =>
                      gcases[k].priority_score =
                          Max(0, Min(10, gresps[k].response.value.v))

\* a returned batch whose first scoring call failed, whose second answer
\* was no number, and whose third was a number
C8_Witness ==
    /\ gpc = "done"
    /\ Len(gresps) = 3
    /\ gresps[1].response.kind = "error"
    /\ gresps[2].response = [kind |-> "text", value |-> JStr]
    /\ gresps[3].response = [kind |-> "text", value |-> JNum(8)]
    /\ Len(gresult) = 3
    /\ gresult[1].id = 3

-----------------------------------------------------------------------------
(* Properties of resource collection                                       *)

\* the urls of the dataset and documentation resources in a list
SearchUrls(list) ==
    {list[i].url : i \in {j \in 1..Len(list) : list[j].type # "github_repo"}}

\* C9: a dataset or documentation resource is in the list collect_resources
\* returns exactly when a probe of its URL answered 200 within the three
\* attempts; one whose three attempts all raised is absent.
C9_PresentIffProbed ==
    cpc = "done" =>
        /\ \A k \in DOMAIN cprobes : (k \in SearchUrls(cresult.items)) <=> (cprobes[k] = "ok")
        /\ SearchUrls(cresult.items) \subseteq DOMAIN cprobes

\* a finished call for two use cases whose list holds a resource accepted
\* for the second one, while a resource of the first one spent its three
\* attempts and another got a refusing response
C9_Witness ==
    /\ cpc = "done"
    /\ Len(cinput) = 2
    /\ \E k \in DOMAIN cprobes : cprobes[k] = "exhausted" /\ k \notin SearchUrls(cresult.items)
    /\ \E k \in DOMAIN cprobes : cprobes[k] = "refused" /\ k \notin SearchUrls(cresult.items)
    /\ \E k \in DOMAIN cprobes : cprobes[k] = "ok" /\ k \in SearchUrls(cresult.items) /\ k[1] = 2

\* C13: collect_resources returns a mapping whose keys are the titles of
\* the use cases it was given, each title mapped to resources that belong to
\* that use case.
C13_ResultIsMapping ==
    cpc = "done" =>
        /\ cresult.type = "dict"
        /\ DOMAIN cresult.items = {cinput[i] : i \in 1..Len(cinput)}
        /\ \A t \in DOMAIN cresult.items :
              \A i \in 1..Len(cresult.items[t]) : cresult.items[t][i].use_case_id = t

\* the waits a retry loop has made before attempt number attempt
WaitsBefore(attempt) == [k \in 1..(attempt - 1) |-> k * RetryDelay]

\* C16: once the gather of a use case has started the call does not raise;
\* a search that ended in an error contributes the empty list, and the
\* lists of the other searches of that use case are added to the resources
\* gathered for the use cases before it, all of which are returned.
C16_FailureIsolated ==
    /\ [](/\ \A kind \in TaskKinds : ctasks[kind].logged => ctasks[kind].validated = <<>>
          /\ cpc = "done" => cresult.items = call)
    /\ [][/\ cpc = "gather" => cpc' \in {"gather", "done"}
          /\ (cpc = "gather" /\ (cuc' # cuc \/ cpc' = "done")) =>
                call' = call \o ctasks["datasets"].validated
                             \o ctasks["documentation"].validated
                             \o ctasks["github"].validated]_vars

\* the second use case's dataset search failed three times and its
\* repository request failed, its documentation search has a validated
\* resource, and resources of the first use case are already gathered
C16_Witness ==
    /\ cpc = "gather"
    /\ cuc = 2
    /\ call # <<>>
    /\ \A kind \in TaskKinds : ctasks[kind].pc = "done"
    /\ ctasks["datasets"].logged
    /\ ctasks["github"].logged
    /\ ctasks["documentation"].validated # <<>>

\* C31: a probe is on attempt 1, 2 or 3; it is on a later attempt only
\* because the attempt before raised, and it has then waited k times the
\* base delay after attempt k.  The step that ends the probing of a resource
\* keeps the resource exactly when the last attempt was answered 200; it
\* ends on an exception only at attempt 3, and on any response at once.
C31_ProbeRetryPolicy ==
    /\ [](\A kind \in SearchKinds :
            LET t == ctasks[kind]
            IN  t.pc = "probe" =>
                   /\ t.attempt \in 1..MaxRetries
                   /\ t.slept = WaitsBefore(t.attempt)
                   /\ t.attempt = 1 => t.last = "none"
                   /\ t.attempt > 1 => t.last = "raised")
    /\ [][\A kind \in SearchKinds :
            LET t == ctasks[kind]
                u == ctasks'[kind]
                r == BuildResource(kind, cuc, t.hit, cinput[cuc])
                retried == u.pc = "probe" /\ u.hit = t.hit
                kept == IF u.pc = "done" \/ u.hit # t.hit THEN u.validated
                        ELSE t.validated
            IN  (t.pc = "probe" /\ u # t) =>
                   IF retried
                   THEN /\ u.attempt = t.attempt + 1
                        /\ u.last = "raised"
                        /\ cprobes' = cprobes
                   ELSE /\ r.url \in DOMAIN cprobes'
                        /\ cprobes'[r.url] = "ok" => kept = Append(t.validated, r)
                        /\ cprobes'[r.url] # "ok" => kept = t.validated
                        /\ cprobes'[r.url] = "exhausted" => t.attempt = MaxRetries]_vars

\* the probe of a resource is on its third attempt after two that raised
C31_Witness ==
    /\ cpc = "gather"
    /\ \E kind \in SearchKinds :
          /\ ctasks[kind].pc = "probe"
          /\ ctasks[kind].attempt = MaxRetries
          /\ ctasks[kind].slept = <<RetryDelay, 2 * RetryDelay>>
          /\ ctasks[kind].last = "raised"
          /\ ctasks[kind].hit = 2
          /\ cprobes[<<cuc, kind, 1>>] = "refused"

\* C32: a failing upsert fails neither stage.  The step that ends
\* research_company returns the dict of the analysis parsed from the answer
\* and the step that ends generate_use_cases returns the scored use cases in
\* priority order, whether the upsert returned or raised; when it raised,
\* the collection is what it was before the call.
C32_StoreFailureSwallowed ==
    [][/\ (qpc = "gather" /\ qpc' # "gather") =>
            LET found == AnalyzeFindings(qcompany, qasked'.search_results,
                                         qasked'.response, 0)
            IN  /\ qpc' = IF found.raised THEN "raised" ELSE "done"
                /\ ~found.raised =>
                      /\ qresult'.kind = "value"
                      /\ qresult'.value = ToDict(found.analysis)
                      /\ qasked'.upsert \in {"ok", "raised"}
                /\ qasked'.upsert = "raised" => analysisStore' = analysisStore
       /\ (gpc = "score" /\ gpc' # "score" /\ gpc' # "await") =>
            /\ gpc' = "done"
            /\ gresult' = SortedByPriority(gcases)
            /\ gupsert' \in {"ok", "raised"}
            /\ gupsert' = "raised" => gstore' = gstore]_vars

\* research_company returned an analysis although its upsert raised, and
\* the collection holds no document for the company
C32_Witness ==
    /\ qpc = "done"
    /\ qasked.upsert = "raised"
    /\ qresult.kind = "value"
    /\ qresult.value.company_name = qcompany
    /\ qcompany \notin DOMAIN analysisStore

\* C33: while generate_use_cases scores and when it has returned, there is
\* one use case per element of the model's array, the k-th built from the
\* k-th element, whatever the length of the array; the returned sequence
\* holds each of them exactly once and nothing else, and every returned use
\* case has a priority score between 0 and 1 (0..10 in tenths).
C33_ReturnedIsPermutation ==
    /\ gpc \in {"score", "await", "done"} =>
          /\ ganswer.top = "array"
          /\ Len(gcases) = Len(ganswer.keys)
          /\ \A k \in 1..Len(gcases) : gcases[k].id = k
    /\ gpc = "done" =>
          /\ Len(gresult) = Len(gcases)
          /\ \A k \in 1..Len(gcases) : Count(gresult, gcases[k]) = 1
          /\ \A i \in 1..Len(gresult) :
                /\ gresult[i].id \in 1..Len(ganswer.keys)
                /\ gresult[i] = gcases[gresult[i].id]
                /\ gresult[i].priority_score \in 0..10
          /\ \A i, j \in 1..Len(gresult) :
                gresult[i].id = gresult[j].id => i = j

\* a returned batch of three, not in the order of the array, holding a
\* score clamped up to 0 and a score clamped down to 1
C33_Witness ==
    /\ gpc = "done"
    /\ Len(ganswer.keys) = MaxBatch
    /\ Len(gresult) = MaxBatch
    /\ gresult[1].id = 2
    /\ gresult[1].priority_score = 10
    /\ gresps[2].response.value = JNum(15)
    /\ gresult[Len(gresult)].id = 1
    /\ gresult[Len(gresult)].priority_score = 0
    /\ gresps[1].response.value = JNum(-5)

\* C17: a running search is on attempt 1, 2 or 3 and has waited k times
\* the base delay after failed attempt k; a search whose three attempts
\* failed has waited twice (1 and 2 base delays), returns the empty list
\* with an error in the log, and the call does not raise.
C17_SearchRetryPolicy ==
    /\ cpc # "raised"
    /\ \A kind \in SearchKinds :
          LET t == ctasks[kind]
          IN  /\ t.pc = "search" =>
                    /\ t.attempt \in 1..MaxRetries
                    /\ t.slept = WaitsBefore(t.attempt)
              /\ t.logged =>
                    /\ t.pc = "done"
                    /\ t.validated = <<>>
                    /\ t.slept = WaitsBefore(MaxRetries)
              /\ (t.pc = "done" /\ ~t.logged /\ t.validated = <<>> /\ t.slept # <<>>) =>
                    \E a \in 2..MaxRetries : t.slept = WaitsBefore(a)

\* a search that failed three times: it waited 1 and 2 base delays and
\* returned the empty list
C17_Witness ==
    \E kind \in SearchKinds :
        /\ ctasks[kind].pc = "done"
        /\ ctasks[kind].logged
        /\ ctasks[kind].slept = <<RetryDelay, 2 * RetryDelay>>
        /\ ctasks[kind].validated = <<>>

\* C18: the collector holds a session exactly while one is open, never
\* more than one is open, a session is created only while the collector
\* holds none and the call has a use case to work on, and after the call
\* has returned or raised no session is open.
C18_ScopedSession ==
    /\ [](/\ copen \in {0, 1}
          /\ (csession = "open") <=> (copen = 1)
          /\ cpc \in {"done", "raised"} => (csession = "none" /\ copen = 0))
    /\ [][copen' > copen => (csession = "none" /\ Truthy(cinput) /\ cpc' = "gather")]_vars

\* a call for two use cases that probed URLs and asked the repository API
\* has returned
C18_Witness ==
    /\ cpc = "done"
    /\ Len(cinput) = 2
    /\ ctoken
    /\ cprobes # EmptyDict
    /\ \E i \in 1..Len(cresult.items) : cresult.items[i].type = "github_repo"
    /\ csession = "none"
    /\ copen = 0

\* C19: without a token the repository search issues no request, logs no
\* error and returns the empty list, the gathered resources hold no
\* repository, and the returned dataset and documentation resources are
\* those whose probe answered 200.
C19_NoTokenNoRequest ==
    ~ctoken =>
        /\ ~ctasks["github"].requested
        /\ ~ctasks["github"].logged
        /\ ctasks["github"].validated = <<>>
        /\ \A i \in 1..Len(call) : call[i].type # "github_repo"
        /\ cpc = "done" =>
              SearchUrls(cresult.items) = {k \in DOMAIN cprobes : cprobes[k] = "ok"}

\* without a token the repository search of the second use case has
\* returned, and both other searches of that use case kept a resource
C19_Witness ==
    /\ ~ctoken
    /\ cpc = "gather"
    /\ cuc = 2
    /\ \A kind \in TaskKinds : ctasks[kind].pc = "done"
    /\ ctasks["datasets"].validated # <<>>
    /\ ctasks["documentation"].validated # <<>>

\* C20: a dataset or documentation search contributes at most 5 resources,
\* built from the first 5 hits the adapter returned.
C20_AtMostFive ==
    /\ \A kind \in SearchKinds : Len(ctasks[kind].validated) <= 5
    /\ \A i \in 1..Len(call) : call[i].type # "github_repo" => call[i].url[3] <= 5

-----------------------------------------------------------------------------
(* Properties of the report stage                                          *)

DeclaredTypes(args) ==
    /\ \A i \in 1..Len(args[3]) : args[3][i].type = "dict"
    /\ args[4].type = "dict"
    /\ \A t \in DOMAIN args[4].items :
          /\ args[4].items[t].type = "dict"
          /\ \A k \in DOMAIN args[4].items[t].items :
                \A i \in 1..Len(args[4].items[t].items[k]) :
                    args[4].items[t].items[k][i].type = "dict"

\* C14: generate_report does not raise on arguments of the declared types,
\* whichever fields of the analysis, of a use case or of a resource are
\* absent, and the text has one section per use case.
C14_ReportNeverRaises ==
    \A i \in DOMAIN rlog :
        DeclaredTypes(rlog[i].args) =>
            /\ ~rlog[i].out.raised
            /\ Len(SectionTitles(rlog[i].out.text)) = Len(rlog[i].args[3])

====
